---------------------------- MODULE Spec2Model ----------------------------
(***************************************************************************)
(* A model of github.com/cloudflare/service:                               *)
(*   - the method registry (methods.go), the WebController (controller.go) *)
(*     and the WebService with the table BuildRouter builds (service.go);  *)
(*   - the pagination helpers (pagination/pagination.go).                  *)
(*                                                                         *)
(* Eight specifications share the variables:                               *)
(*   Spec            the web service: controllers, AddWebController,       *)
(*                   BuildRouter and requests served through the table;    *)
(*   SpecController  one controller driven through its exported methods    *)
(*                   with every method id;                                 *)
(*   SpecPage        PageCount and MaxOffset applied to drawn inputs;      *)
(*   SpecOffset      OffsetFromPage, and CurrentPage applied to its result;*)
(*   SpecQuery       LimitAndOffset applied to drawn query strings;        *)
(*   SpecCore        Populate applied to drawn totals, limits and offsets; *)
(*   SpecRegistry    the method registry applied to drawn ids and names;   *)
(*   SpecLive        one controller of the caller in a service that serves *)
(*                   requests on concurrent goroutines.                    *)
(***************************************************************************)
EXTENDS Integers, Sequences, FiniteSets, TLC

VARIABLES
    maps,       \* the handler maps on the heap: map id -> (method id -> handler)
    ctl,        \* the caller's WebController values, in the order they were made
    ws,         \* WebService.controllers: the copies AddWebController appended
    router,     \* the table of the last BuildRouter, <<>> before the first
    BuildTag,   \* the package variable BuildTag
    BuildDate,  \* the package variable BuildDate
    fatal,      \* "" while the process runs, else the message log.Fatal wrote
    lastReg,    \* history: per map id, the handler last passed in for a method
    ret,        \* the last operation and what it returned or answered
    pgIn,       \* pagination: the arguments of the call (total, limit)
    pgRet,      \* pagination: the last call and the value it returned
    inflight    \* per request goroutine: where it stands inside a handler

svcVars == <<maps, ctl, ws, router, BuildTag, BuildDate, fatal, lastReg, ret, inflight>>

pageVars == <<pgIn, pgRet>>

vars == <<maps, ctl, ws, router, BuildTag, BuildDate, fatal, lastReg, ret, pgIn, pgRet, inflight>>

None == [op |-> "none"]

(***************************************************************************)
(* int64 arithmetic, at a reduced width.  Go wraps +, - and * silently,    *)
(* divides truncating toward zero, and gives the remainder the sign of     *)
(* the dividend.                                                           *)
(***************************************************************************)
IntBits == 10

TwoTo(n) == 2 ^ n

MinInt == -TwoTo(IntBits - 1)

MaxInt == TwoTo(IntBits - 1) - 1

Wrap(x) == ((x - MinInt) % TwoTo(IntBits)) + MinInt

Abs(x) == IF x < 0 THEN -x ELSE x

\* a / b of Go for b # 0: the quotient truncated toward zero
Quo(a, b) ==
    LET q == Abs(a) \div Abs(b)
    IN  Wrap(IF (a < 0) = (b < 0) THEN q ELSE -q)

\* a % b of Go for b # 0: a - (a/b)*b, with the sign of a
Rem(a, b) ==
    LET r == Abs(a) % Abs(b)
    IN  IF a < 0 THEN -r ELSE r

Add(a, b) == Wrap(a + b)

Sub(a, b) == Wrap(a - b)

Mul(a, b) == Wrap(a * b)

(***************************************************************************)
(* pagination.go                                                           *)
(***************************************************************************)
DefaultLimit == 25

DefaultOffset == 0

\* MaxOffset without the final "* limit"
MaxOffsetNoScale(total, limit) ==
    LET l == IF limit = 0 THEN DefaultLimit ELSE limit
    IN  Quo(Sub(total, 1), l)

MaxOffset(total, limit) ==
    LET l == IF limit = 0 THEN DefaultLimit ELSE limit
    IN  Mul(Quo(Sub(total, 1), l), l)

\* PageCount without the "pages++" for a partial last page
PageCountNoRound(total, limit) ==
    LET l == IF limit = 0 THEN DefaultLimit ELSE limit
    IN  Quo(total, l)

PageCount(total, limit) ==
    LET l     == IF limit = 0 THEN DefaultLimit ELSE limit
        pages == Quo(total, l)
    IN  IF Rem(total, l) > 0 THEN Add(pages, 1) ELSE pages

(***************************************************************************)
(* methods.go: the closed enumeration of HTTP methods                      *)
(***************************************************************************)
Options == 0

\* Head (the name Head is taken by Sequences)
HeadMethod == 1

Post == 2

Get == 3

Put == 4

Patch == 5

Delete == 6

Connect == 7

Trace == 8

IsMethod(m) ==
    CASE m = Options -> TRUE
      [] m = HeadMethod    -> TRUE
      [] m = Post    -> TRUE
      [] m = Get     -> TRUE
      [] m = Put     -> TRUE
      [] m = Patch   -> TRUE
      [] m = Delete  -> TRUE
      [] m = Connect -> TRUE
      [] m = Trace   -> TRUE
      [] OTHER       -> FALSE

GetMethodName(m) ==
    CASE m = Options -> "OPTIONS"
      [] m = HeadMethod    -> "HEAD"
      [] m = Post    -> "POST"
      [] m = Get     -> "GET"
      [] m = Put     -> "PUT"
      [] m = Patch   -> "PATCH"
      [] m = Delete  -> "DELETE"
      [] m = Connect -> "CONNECT"
      [] m = Trace   -> "TRACE"
      [] OTHER       -> ""

\* GetMethodID without the case for TRACE
GetMethodIDNoTrace(method) ==
    CASE method = "OPTIONS" -> Options
      [] method = "HEAD"    -> HeadMethod
      [] method = "POST"    -> Post
      [] method = "GET"     -> Get
      [] method = "PUT"     -> Put
      [] method = "PATCH"   -> Patch
      [] method = "DELETE"  -> Delete
      [] method = "CONNECT" -> Connect
      [] OTHER              -> 0

GetMethodID(method) ==
    CASE method = "OPTIONS" -> Options
      [] method = "HEAD"    -> HeadMethod
      [] method = "POST"    -> Post
      [] method = "GET"     -> Get
      [] method = "PUT"     -> Put
      [] method = "PATCH"   -> Patch
      [] method = "DELETE"  -> Delete
      [] method = "CONNECT" -> Connect
      [] method = "TRACE"   -> Trace
      [] OTHER              -> 0

\* GetHTTPMethod(req) is GetMethodID(req.Method)
GetHTTPMethod(req) == GetMethodID(req.method)

(***************************************************************************)
(* Strings.  A Go string compares byte by byte; the bytes of the strings   *)
(* the program compares (method names, endpoint URLs) are tabulated here.  *)
(***************************************************************************)
Bytes(s) ==
    CASE s = "OPTIONS"                -> <<79, 80, 84, 73, 79, 78, 83>>
      [] s = "HEAD"                   -> <<72, 69, 65, 68>>
      [] s = "POST"                   -> <<80, 79, 83, 84>>
      [] s = "GET"                    -> <<71, 69, 84>>
      [] s = "PUT"                    -> <<80, 85, 84>>
      [] s = "PATCH"                  -> <<80, 65, 84, 67, 72>>
      [] s = "DELETE"                 -> <<68, 69, 76, 69, 84, 69>>
      [] s = "CONNECT"                -> <<67, 79, 78, 78, 69, 67, 84>>
      [] s = "TRACE"                  -> <<84, 82, 65, 67, 69>>
      [] s = "/"                      -> <<47>>
      [] s = "/_version"              -> <<47, 95, 118, 101, 114, 115, 105, 111, 110>>
      [] s = "/_heartbeat"            -> <<47, 95, 104, 101, 97, 114, 116, 98, 101, 97, 116>>
      [] s = "/foobar"                -> <<47, 102, 111, 111, 98, 97, 114>>
      [] s = "/_profiler/info.html"   -> <<47, 95, 112, 114, 111, 102, 105, 108, 101, 114, 47, 105, 110, 102, 111, 46, 104, 116, 109, 108>>
      [] s = "/_debug/pprof"          -> <<47, 95, 100, 101, 98, 117, 103, 47, 112, 112, 114, 111, 102>>
      [] s = ""                       -> <<>>

RECURSIVE BytesLess(_, _)
BytesLess(a, b) ==
    IF b = <<>> THEN FALSE
    ELSE IF a = <<>> THEN TRUE
    ELSE IF a[1] # b[1] THEN a[1] < b[1]
    ELSE BytesLess(Tail(a), Tail(b))

\* a < b on Go strings
StringLess(a, b) == BytesLess(Bytes(a), Bytes(b))

\* strings.Join(seq, sep)
RECURSIVE Join(_, _)
Join(seq, sep) ==
    IF seq = <<>> THEN ""
    ELSE IF Len(seq) = 1 THEN seq[1]
    ELSE seq[1] \o sep \o Join(Tail(seq), sep)

\* sort.StringSlice.Sort: the slice in ascending order of StringLess
RECURSIVE InsertSorted(_, _)
InsertSorted(x, sorted) ==
    IF sorted = <<>> THEN <<x>>
    ELSE IF StringLess(x, sorted[1]) THEN <<x>> \o sorted
    ELSE <<sorted[1]>> \o InsertSorted(x, Tail(sorted))

RECURSIVE SortStrings(_)
SortStrings(seq) ==
    IF seq = <<>> THEN <<>>
    ELSE InsertSorted(seq[1], SortStrings(Tail(seq)))

\* every order in which `for k := range m` can visit the keys in S
RECURSIVE Orders(_)
Orders(S) ==
    IF S = {} THEN {<<>>}
    ELSE UNION {{<<k>> \o rest : rest \in Orders(S \ {k})} : k \in S}

(***************************************************************************)
(* render: a response is what a handler wrote to the http.ResponseWriter:  *)
(* the status, the Allow and Content-Length headers ("" when not set),     *)
(* the body, and the handler function that ran.                            *)
(***************************************************************************)
StatusOK == 200

StatusNotFound == 404

StatusMethodNotAllowed == 405

EmptyBody == [kind |-> "empty"]

\* render.Error(w, status, err): the JSON object {"error": err.Error()}
RenderError(status, msg) ==
    [status |-> status, body |-> [kind |-> "json", error |-> msg]]

\* render.JSON(w, status, v)
RenderJSON(status, v) ==
    [status |-> status, body |-> [kind |-> "json", value |-> v]]

\* os.Args[0]
Command == "service"

\* Version.Hydrate on a zero Version
Hydrate == [build |-> BuildTag, buildDate |-> BuildDate, command |-> Command]

\* the handler NewWebService and BuildRouter install for the version info
VersionHandler == RenderJSON(StatusOK, Hydrate)

\* Response: what the writer holds after the handler named `handler` ran
Response(handler, allow, contentLength, written) ==
    [handler       |-> handler,
     status        |-> written.status,
     allow         |-> allow,
     contentLength |-> contentLength,
     body          |-> written.body]

(***************************************************************************)
(* controller.go                                                           *)
(***************************************************************************)
\* the handlers a caller registers; each writes its own name with status 200
UserHandlers == {"h1", "h2"}

\* what a registered handler function does when it is called
CallHandler(h) ==
    IF h = "heartbeat"
    THEN Response(h, "", "", VersionHandler)
    ELSE Response(h, "", "", [status |-> StatusOK, body |-> [kind |-> "text", text |-> h]])

\* NewWebController(route), with the id of the map it makes
NewWebController(route, id) ==
    [Route |-> route, handlers |-> id, allowed |-> ""]

\* the names of the keys in the order the range loop visits them
NamesOf(order) == [i \in 1 .. Len(order) |-> GetMethodName(order[i])]

\* GetAllowedMethods as it was before HEAD and OPTIONS were listed and sorted
GetAllowedMethodsUnsorted(wc, order) ==
    IF wc.allowed # ""
    THEN wc.allowed
    ELSE Join(<<"HEAD", "OPTIONS">> \o NamesOf(order), ",")

\* GetAllowedMethods: the value returned, which is also the memo afterwards
GetAllowedMethods(wc, order) ==
    IF wc.allowed # ""
    THEN wc.allowed
    ELSE Join(SortStrings(<<"HEAD", "OPTIONS">> \o NamesOf(order)), ",")

\* the orders the range loop over wc.handlers can take
KeyOrders(wc) == Orders(DOMAIN maps[wc.handlers])

\* AddMethodHandler that keeps the handler a method already has
AddMethodHandlerKeepFirst(c, m, h) ==
    IF ~IsMethod(m)
    THEN /\ fatal' = "Method iota " \o ToString(m) \o " not recognised"
         /\ UNCHANGED <<maps, ctl>>
    ELSE IF m = Options \/ m = HeadMethod
    THEN /\ fatal' = "Cannot set " \o GetMethodName(m) \o ", this is provided for you"
         /\ UNCHANGED <<maps, ctl>>
    ELSE /\ maps' = [maps EXCEPT ![ctl[c].handlers] = @ @@ (m :> h)]
         /\ ctl' = [ctl EXCEPT ![c].allowed = ""]
         /\ UNCHANGED fatal

\* AddMethodHandler without the check for OPTIONS and HEAD
AddMethodHandlerNoReserved(c, m, h) ==
    IF ~IsMethod(m)
    THEN /\ fatal' = "Method iota " \o ToString(m) \o " not recognised"
         /\ UNCHANGED <<maps, ctl>>
    ELSE /\ maps' = [maps EXCEPT ![ctl[c].handlers] = (m :> h) @@ @]
         /\ ctl' = [ctl EXCEPT ![c].allowed = ""]
         /\ UNCHANGED fatal

\* wc.AddMethodHandler(m, h) on the caller's controller ctl[c]
AddMethodHandler(c, m, h) ==
    IF ~IsMethod(m)
    THEN /\ fatal' = "Method iota " \o ToString(m) \o " not recognised"
         /\ UNCHANGED <<maps, ctl>>
    ELSE IF m = Options \/ m = HeadMethod
    THEN /\ fatal' = "Cannot set " \o GetMethodName(m) \o ", this is provided for you"
         /\ UNCHANGED <<maps, ctl>>
    ELSE /\ maps' = [maps EXCEPT ![ctl[c].handlers] = (m :> h) @@ @]
         /\ ctl' = [ctl EXCEPT ![c].allowed = ""]
         /\ UNCHANGED fatal

\* GetMethodHandler that answers only OPTIONS itself (HEAD falls through)
GetMethodHandlerOptionsOnly(wc, m) ==
    IF m = Options
    THEN [kind |-> "options"]
    ELSE IF m \in DOMAIN maps[wc.handlers]
    THEN [kind |-> "registered", h |-> maps[wc.handlers][m]]
    ELSE [kind |-> "notallowed"]

\* wc.GetMethodHandler(m): which of the three functions it returns
GetMethodHandler(wc, m) ==
    IF m = Options \/ m = HeadMethod
    THEN [kind |-> "options"]
    ELSE IF m \in DOMAIN maps[wc.handlers]
    THEN [kind |-> "registered", h |-> maps[wc.handlers][m]]
    ELSE [kind |-> "notallowed"]

\* the 405 responder without the Allow header
RunHandlerNoAllow(wc, fn, order) ==
    LET allowed == GetAllowedMethods(wc, order)
    IN  CASE fn.kind = "options" ->
               [allowed |-> allowed,
                resp |-> Response("options", allowed, "0",
                                  [status |-> StatusOK, body |-> EmptyBody])]
          [] fn.kind = "registered" ->
               [allowed |-> wc.allowed, resp |-> CallHandler(fn.h)]
          [] fn.kind = "notallowed" ->
               [allowed |-> allowed,
                resp |-> Response("notallowed", "", "",
                                  RenderError(StatusMethodNotAllowed,
                                      "405 Method Not Allowed. Allowed: " \o allowed))]

\* calling the function GetMethodHandler returned, with wc the controller
\* its closure refers to: the response and the memo of wc afterwards
RunHandler(wc, fn, order) ==
    LET allowed == GetAllowedMethods(wc, order)
    IN  CASE fn.kind = "options" ->
               [allowed |-> allowed,
                resp |-> Response("options", allowed, "0",
                                  [status |-> StatusOK, body |-> EmptyBody])]
          [] fn.kind = "registered" ->
               [allowed |-> wc.allowed, resp |-> CallHandler(fn.h)]
          [] fn.kind = "notallowed" ->
               [allowed |-> allowed,
                resp |-> Response("notallowed", allowed, "",
                                  RenderError(StatusMethodNotAllowed,
                                      "405 Method Not Allowed. Allowed: " \o allowed))]

(***************************************************************************)
(* service.go                                                              *)
(***************************************************************************)
root == "/"

VersionRoute == "/_version"

HeartbeatRoute == "/_heartbeat"

\* the wildcard route BuildRouter registers last
CatchAll == "/{path:.*}"

\* the map and the controller NewWebService makes for the heartbeat
HeartbeatMap == 0

\* NewWebService without the heartbeat controller
NewWebServiceNoHeartbeat ==
    [maps        |-> (HeartbeatMap :> (Get :> "heartbeat")),
     controllers |-> <<>>]

NewWebService ==
    [maps        |-> (HeartbeatMap :> (Get :> "heartbeat")),
     controllers |-> <<NewWebController(HeartbeatRoute, HeartbeatMap)>>]

\* EndPoints.Less
Less(a, b) == StringLess(a.URL, b.URL)

\* sort.Sort(links): ascending by Less.  sort.Sort is not stable, so the
\* order of endpoints with equal URLs is left to the order of the input,
\* which the caller of SortLinks varies.
RECURSIVE InsertLink(_, _)
InsertLink(x, sorted) ==
    IF sorted = <<>> THEN <<x>>
    ELSE IF Less(x, sorted[1]) THEN <<x>> \o sorted
    ELSE <<sorted[1]>> \o InsertLink(x, Tail(sorted))

RECURSIVE SortLinks(_)
SortLinks(links) ==
    IF links = <<>> THEN <<>>
    ELSE InsertLink(links[1], SortLinks(Tail(links)))

\* the routes of the profiling and debug handlers, in registration order
ExternalRoutes ==
    <<"/_profiler/info.html", "/_profiler/info", "/_profiler/start", "/_profiler/stop",
      "/_debug/pprof/", "/_debug/pprof/cmdline", "/_debug/pprof/profile",
      "/_debug/pprof/symbol">>

\* GetHandler(wc): the closure holds its own copy of the controller value
GetHandler(wc) == [kind |-> "controller", wc |-> wc]

\* the loop over ws.controllers: r.Handle(wc.Route, GetHandler(wc))
ControllerRoutes(controllers) ==
    [i \in 1 .. Len(controllers) |->
        [pattern |-> controllers[i].Route, idx |-> i] @@ GetHandler(controllers[i])]

\* the loop over ws.controllers: the EndPoint of each controller.  The
\* loop variable is a copy, so the memo GetAllowedMethods writes is dropped.
ControllerLinks(controllers, orderOf, tie) ==
    [i \in 1 .. Len(controllers) |->
        [URL     |-> controllers[tie[i]].Route,
         Methods |-> GetAllowedMethods(controllers[tie[i]], orderOf[tie[i]])]]

\* the profiling and debug handlers and the two EndPoints listed for them
ExternalHandlers ==
    [i \in 1 .. Len(ExternalRoutes) |-> [pattern |-> ExternalRoutes[i], kind |-> "external"]]

ExternalLinks ==
    <<[URL |-> "/_profiler/info.html", Methods |-> "GET"],
      [URL |-> "/_debug/pprof", Methods |-> "GET"]>>

RouteSeen(controllers, route) ==
    \E i \in 1 .. Len(controllers) : controllers[i].Route = route

VersionEntry == [pattern |-> VersionRoute, kind |-> "version"]

VersionLink == [URL |-> VersionRoute, Methods |-> "GET"]

\* the index without the sort.Sort(links) before it is installed
IndexEntryUnsorted(links) == [pattern |-> root, kind |-> "index", links |-> links]

IndexEntry(links) == [pattern |-> root, kind |-> "index", links |-> SortLinks(links)]

NotFoundEntry == [pattern |-> CatchAll, kind |-> "notfound"]

\* BuildRouter registering the default version and index handlers first,
\* without looking at the controllers
BuildRouterDefaultsFirst(controllers, orderOf, tie) ==
    LET links == ControllerLinks(controllers, orderOf, tie) \o ExternalLinks \o <<VersionLink>>
    IN  <<VersionEntry, IndexEntry(links)>>
        \o ControllerRoutes(controllers)
        \o ExternalHandlers
        \o <<NotFoundEntry>>

\* BuildRouter without the default version handler
BuildRouterNoVersion(controllers, orderOf, tie) ==
    LET rootSeen == RouteSeen(controllers, root)
        links    == ControllerLinks(controllers, orderOf, tie) \o ExternalLinks
    IN  ControllerRoutes(controllers)
        \o ExternalHandlers
        \o (IF ~rootSeen THEN <<IndexEntry(links)>> ELSE <<>>)
        \o <<NotFoundEntry>>

\* BuildRouter with the wildcard route registered before the default ones
BuildRouterCatchAllEarly(controllers, orderOf, tie) ==
    LET rootSeen    == RouteSeen(controllers, root)
        versionSeen == RouteSeen(controllers, VersionRoute)
        links       == ControllerLinks(controllers, orderOf, tie)
                       \o ExternalLinks
                       \o (IF ~versionSeen THEN <<VersionLink>> ELSE <<>>)
    IN  ControllerRoutes(controllers)
        \o <<NotFoundEntry>>
        \o ExternalHandlers
        \o (IF ~versionSeen THEN <<VersionEntry>> ELSE <<>>)
        \o (IF ~rootSeen THEN <<IndexEntry(links)>> ELSE <<>>)

\* ws.BuildRouter(): the routes in the order they are registered.
\* orderOf[i] is the order the range loop of GetAllowedMethods takes for
\* controller i; tie is the order sort.Sort meets the controllers in.
BuildRouter(controllers, orderOf, tie) ==
    LET rootSeen    == RouteSeen(controllers, root)
        versionSeen == RouteSeen(controllers, VersionRoute)
        links       == ControllerLinks(controllers, orderOf, tie)
                       \o ExternalLinks
                       \o (IF ~versionSeen THEN <<VersionLink>> ELSE <<>>)
    IN  ControllerRoutes(controllers)
        \o ExternalHandlers
        \o (IF ~versionSeen THEN <<VersionEntry>> ELSE <<>>)
        \o (IF ~rootSeen THEN <<IndexEntry(links)>> ELSE <<>>)
        \o <<NotFoundEntry>>

(***************************************************************************)
(* The router (gorilla/mux): a request goes to the first registered route  *)
(* whose pattern matches its path.  A request is the method name and the   *)
(* path after its leading "/"; the routes here are literal paths, and the  *)
(* wildcard binds "path" to everything after the "/".                      *)
(***************************************************************************)
Path(req) == "/" \o req.tail

Matches(pattern, path) == pattern = CatchAll \/ pattern = path

\* mux.Vars(r)["path"] on the wildcard route
PathVar(req) == req.tail

\* a router that keeps one handler per pattern, the one registered last
LastMatch(table, req) ==
    LET hits == {i \in 1 .. Len(table) : table[i].pattern = Path(req)}
    IN  IF hits = {} THEN Len(table) ELSE CHOOSE i \in hits : \A j \in hits : j <= i

RECURSIVE FirstMatchFrom(_, _, _)
FirstMatchFrom(table, path, i) ==
    IF Matches(table[i].pattern, path) THEN i ELSE FirstMatchFrom(table, path, i + 1)

\* the index of the route that serves req (the wildcard matches every path)
FirstMatch(table, req) == FirstMatchFrom(table, Path(req), 1)

\* the handler of route e serving req: the response, and the route after it
\* (a controller's closure keeps the memo its GetAllowedMethods wrote)
ServeRoute(e, req, order) ==
    CASE e.kind = "controller" ->
           LET r == RunHandler(e.wc, GetMethodHandler(e.wc, GetHTTPMethod(req)), order)
           IN  [entry |-> [e EXCEPT !.wc.allowed = r.allowed], resp |-> r.resp]
      [] e.kind = "external" ->
           [entry |-> e,
            resp  |-> Response(e.pattern, "", "", [status |-> StatusOK, body |-> [kind |-> "external"]])]
      [] e.kind = "version" ->
           [entry |-> e, resp |-> Response("version", "", "", VersionHandler)]
      [] e.kind = "index" ->
           [entry |-> e, resp |-> Response("index", "", "", RenderJSON(StatusOK, e.links))]
      [] e.kind = "notfound" ->
           [entry |-> e,
            resp  |-> Response("notfound", "", "",
                               RenderError(StatusNotFound, "/" \o PathVar(req) \o " not found"))]

(***************************************************************************)
(* The operations of the program as steps.  log.Fatal ends the process:    *)
(* nothing happens once fatal is set.                                      *)
(***************************************************************************)
Running == fatal = ""

\* the goroutines net/http runs handlers on, one per request being served
MaxGoroutines == 2

Goroutines == 1 .. MaxGoroutines

\* a goroutine that is not inside a handler
Idle == [at |-> "idle"]

\* the method ids AddMethodHandler is meant to store
Storable(m) == m \in 0 .. 8 /\ GetMethodName(m) \notin {"HEAD", "OPTIONS"}

\* the state NewWebService returns, before the caller has done anything
InitService ==
    /\ ws = NewWebService.controllers
    /\ router = <<>>
    /\ BuildTag = "dev"
    /\ BuildDate = "0001-01-01T00:00:00Z"
    /\ fatal = ""
    /\ ret = None
    /\ inflight = [g \in Goroutines |-> Idle]

DoNewWebController(route) ==
    /\ Running
    /\ LET id == Len(ctl) + 1
       IN  /\ ctl' = Append(ctl, NewWebController(route, id))
           /\ maps' = (id :> <<>>) @@ maps
           /\ lastReg' = (id :> <<>>) @@ lastReg
    /\ ret' = [op |-> "NewWebController"]
    /\ UNCHANGED <<ws, router, BuildTag, BuildDate, fatal, pgIn, pgRet, inflight>>

DoAddMethodHandler(c, m, h) ==
    /\ Running
    /\ c \in 1 .. Len(ctl)
    /\ AddMethodHandler(c, m, h)
    /\ lastReg' = IF Storable(m)
                  THEN [lastReg EXCEPT ![ctl[c].handlers] = (m :> h) @@ @]
                  ELSE lastReg
    /\ ret' = [op |-> "AddMethodHandler", m |-> m]
    /\ UNCHANGED <<ws, router, BuildTag, BuildDate, pgIn, pgRet, inflight>>

DoGetAllowedMethods(c) ==
    /\ Running
    /\ c \in 1 .. Len(ctl)
    /\ \E order \in KeyOrders(ctl[c]) :
          LET s == GetAllowedMethods(ctl[c], order)
          IN  /\ ctl' = [ctl EXCEPT ![c].allowed = s]
              /\ ret' = [op |-> "GetAllowedMethods", c |-> c, order |-> order, value |-> s]
    /\ UNCHANGED <<maps, ws, router, BuildTag, BuildDate, fatal, lastReg, pgIn, pgRet, inflight>>

\* ctl[c].GetMethodHandler(m)(w, req): the function it returns is called
DoGetMethodHandler(c, m) ==
    /\ Running
    /\ c \in 1 .. Len(ctl)
    /\ \E order \in KeyOrders(ctl[c]) :
          LET r == RunHandler(ctl[c], GetMethodHandler(ctl[c], m), order)
          IN  /\ ctl' = [ctl EXCEPT ![c].allowed = r.allowed]
              /\ ret' = [op |-> "GetMethodHandler", c |-> c, m |-> m, resp |-> r.resp]
    /\ UNCHANGED <<maps, ws, router, BuildTag, BuildDate, fatal, lastReg, pgIn, pgRet, inflight>>

\* ws.AddWebController(ctl[c]): the controller is passed and stored by value
DoAddWebController(c) ==
    /\ Running
    /\ c \in 1 .. Len(ctl)
    /\ ws' = Append(ws, ctl[c])
    /\ ret' = [op |-> "AddWebController"]
    /\ UNCHANGED <<maps, ctl, router, BuildTag, BuildDate, fatal, lastReg, pgIn, pgRet, inflight>>

\* the choices BuildRouter leaves open: a range order for every controller
OrderChoices(controllers) ==
    {f \in [1 .. Len(controllers) -> UNION {KeyOrders(controllers[i]) : i \in 1 .. Len(controllers)}] :
        \A i \in 1 .. Len(controllers) : f[i] \in KeyOrders(controllers[i])}

\* the EndPoints of the index of a table, <<>> when it has none
IndexOf(table) ==
    IF \E i \in 1 .. Len(table) : table[i].kind = "index"
    THEN table[CHOOSE i \in 1 .. Len(table) : table[i].kind = "index"].links
    ELSE <<>>

\* the two lists hold the same EndPoints, each as often
SameEndPoints(a, b) ==
    /\ Len(a) = Len(b)
    /\ \A i \in 1 .. Len(a) :
          Cardinality({j \in 1 .. Len(a) : a[j] = a[i]})
             = Cardinality({j \in 1 .. Len(b) : b[j] = a[i]})

\* sort.Sort is not stable but it is deterministic: the same list comes out
\* in the same order, so a table built from the EndPoints of the table
\* before it lists them as that one does
SortsAsBefore(table) ==
    SameEndPoints(IndexOf(table), IndexOf(router)) => IndexOf(table) = IndexOf(router)

\* BuildRouter with the range loop running over the controllers themselves,
\* so that the memo GetAllowedMethods writes stays in the WebService
DoBuildRouterKeepsMemo ==
    /\ Running
    /\ \E orderOf \in OrderChoices(ws), tie \in Orders(1 .. Len(ws)) :
          /\ SortsAsBefore(BuildRouter(ws, orderOf, tie))
          /\ router' = BuildRouter(ws, orderOf, tie)
          /\ ws' = [i \in 1 .. Len(ws) |->
                       [ws[i] EXCEPT !.allowed = GetAllowedMethods(ws[i], orderOf[i])]]
    /\ ret' = [op |-> "BuildRouter", again |-> router # <<>>]
    /\ UNCHANGED <<maps, ctl, BuildTag, BuildDate, fatal, lastReg, pgIn, pgRet, inflight>>

\* ws.BuildRouter(); ret.again tells that a table had been built before
DoBuildRouter ==
    /\ Running
    /\ \E orderOf \in OrderChoices(ws), tie \in Orders(1 .. Len(ws)) :
          /\ SortsAsBefore(BuildRouter(ws, orderOf, tie))
          /\ router' = BuildRouter(ws, orderOf, tie)
    /\ ret' = [op |-> "BuildRouter", again |-> router # <<>>]
    /\ UNCHANGED <<maps, ctl, ws, BuildTag, BuildDate, fatal, lastReg, pgIn, pgRet, inflight>>

\* the server serves req through the table
DoServe(req) ==
    /\ Running
    /\ router # <<>>
    /\ LET i == FirstMatch(router, req)
           e == router[i]
       IN  \E order \in (IF e.kind = "controller" THEN KeyOrders(e.wc) ELSE {<<>>}) :
              LET r == ServeRoute(e, req, order)
              IN  /\ router' = [router EXCEPT ![i] = r.entry]
                  /\ ret' = [op |-> "Serve", req |-> req, route |-> i, resp |-> r.resp]
    /\ UNCHANGED <<maps, ctl, ws, BuildTag, BuildDate, fatal, lastReg, pgIn, pgRet, inflight>>

\* main assigns service.BuildTag and service.BuildDate
DoSetBuild(b) ==
    /\ Running
    /\ BuildTag # b.tag
    /\ BuildTag' = b.tag
    /\ BuildDate' = b.date
    /\ ret' = [op |-> "SetBuild"]
    /\ UNCHANGED <<maps, ctl, ws, router, fatal, lastReg, pgIn, pgRet, inflight>>

(***************************************************************************)
(* Spec: the web service.  The caller wires the service (makes             *)
(* controllers, registers handlers, adds each controller once), then       *)
(* builds the router, as main does before Run blocks in ListenAndServe;    *)
(* after that requests are served through the table.                       *)
(***************************************************************************)
MaxControllers == 1

\* the routes callers give their controllers
Routes == {root, VersionRoute, HeartbeatRoute, "/foobar"}

\* the method ids the callers of Spec pass
SvcMethodIds == {Get}

\* the requests: method names (one of them unknown to the registry) and paths
ReqMethods == {"GET", "HEAD", "OPTIONS", "BREW"}

ReqTails == {"", "_version", "_heartbeat", "foobar", "missing", "_profiler/info"}

Requests == [method : ReqMethods, tail : ReqTails]

\* the build tag and date a Makefile hands to main
Builds == {[tag |-> "a1b2c3d", date |-> "2016-03-01T12:00:00Z"]}

Wiring == router = <<>>

Added(c) == \E i \in 1 .. Len(ws) : ws[i].handlers = ctl[c].handlers

Init ==
    /\ InitService
    /\ maps = NewWebService.maps
    /\ ctl = <<>>
    /\ lastReg = (HeartbeatMap :> (Get :> "heartbeat"))
    /\ pgIn = None
    /\ pgRet = None

Next ==
    \/ \E route \in Routes :
          /\ Wiring
          /\ Len(ctl) < MaxControllers
          /\ \A c \in 1 .. Len(ctl) : Added(c)
          /\ DoNewWebController(route)
    \/ \E c \in 1 .. MaxControllers, m \in SvcMethodIds, h \in UserHandlers :
          Wiring /\ DoAddMethodHandler(c, m, h)
    \/ \E c \in 1 .. MaxControllers :
          Wiring /\ c \in 1 .. Len(ctl) /\ ~Added(c) /\ DoAddWebController(c)
    \/ (\A c \in 1 .. Len(ctl) : Added(c)) /\ DoBuildRouter
    \/ \E req \in Requests : DoServe(req)
    \/ \E b \in Builds : DoSetBuild(b)

Spec == Init /\ [][Next]_vars

(***************************************************************************)
(* SpecController: one controller of the caller, driven through its        *)
(* exported methods with every method id.                                  *)
(***************************************************************************)
MaxHandlers == 2

InitController ==
    /\ InitService
    /\ ctl = <<NewWebController("/foobar", 1)>>
    /\ maps = (1 :> <<>>) @@ NewWebService.maps
    /\ lastReg = (1 :> <<>>) @@ (HeartbeatMap :> (Get :> "heartbeat"))
    /\ pgIn = None
    /\ pgRet = None

\* the method ids callers pass: the nine methods and one id on either side
MethodIds == -1 .. 9

NextController ==
    \/ \E m \in MethodIds, h \in UserHandlers :
          /\ \/ ~Storable(m)
             \/ m \in DOMAIN maps[1]
             \/ Cardinality(DOMAIN maps[1]) < MaxHandlers
          /\ DoAddMethodHandler(1, m, h)
    \/ DoGetAllowedMethods(1)
    \/ \E m \in MethodIds : DoGetMethodHandler(1, m)

SpecController == InitController /\ [][NextController]_vars

(***************************************************************************)
(* SpecLive: the service while it serves.  net/http runs every request on  *)
(* a goroutine of its own, and the closure GetHandler returned is shared   *)
(* by all of them: its wc is one captured variable.  GetAllowedMethods     *)
(* reads wc.allowed, and when it is empty builds the list and assigns it,  *)
(* with no lock; a goroutine is between the read and the assignment while  *)
(* it stands at "GetAllowedMethods".  The caller keeps its controller      *)
(* value and goes on calling AddMethodHandler on it, also after            *)
(* AddWebController and BuildRouter, while no request is being served.     *)
(***************************************************************************)
\* the closure of route e reaches the assignment of wc.allowed for req
BuildsMemo(e, req) ==
    /\ e.kind = "controller"
    /\ GetMethodHandler(e.wc, GetHTTPMethod(req)).kind \in {"options", "notallowed"}
    /\ e.wc.allowed = ""

\* goroutine g takes req: the router picks the route and the handler runs
\* up to the point where GetAllowedMethods has found the memo empty, or to
\* its end when it does not get there
DoServeEnter(g, req) ==
    /\ Running
    /\ router # <<>>
    /\ inflight[g] = Idle
    /\ LET i == FirstMatch(router, req)
           e == router[i]
       IN  IF BuildsMemo(e, req)
           THEN /\ inflight' = [inflight EXCEPT ![g] =
                                   [at |-> "GetAllowedMethods", req |-> req, route |-> i]]
                /\ ret' = [op |-> "ServeEnter", g |-> g]
                /\ UNCHANGED router
           ELSE /\ \E order \in (IF e.kind = "controller" THEN KeyOrders(e.wc) ELSE {<<>>}) :
                      LET r == ServeRoute(e, req, order)
                      IN  /\ router' = [router EXCEPT ![i] = r.entry]
                          /\ ret' = [op |-> "Serve", req |-> req, route |-> i,
                                     resp |-> r.resp, g |-> g]
                /\ UNCHANGED inflight
    /\ UNCHANGED <<maps, ctl, ws, BuildTag, BuildDate, fatal, lastReg, pgIn, pgRet>>

\* goroutine g ranges over the map, sorts and joins the names, assigns
\* wc.allowed of the closure and writes the response
DoServeFinish(g) ==
    /\ Running
    /\ inflight[g] # Idle
    /\ LET i   == inflight[g].route
           req == inflight[g].req
           e   == [router[i] EXCEPT !.wc.allowed = ""]
       IN  \E order \in KeyOrders(e.wc) :
              LET r == ServeRoute(e, req, order)
              IN  /\ router' = [router EXCEPT ![i] = r.entry]
                  /\ ret' = [op |-> "Serve", req |-> req, route |-> i,
                             resp |-> r.resp, g |-> g]
    /\ inflight' = [inflight EXCEPT ![g] = Idle]
    /\ UNCHANGED <<maps, ctl, ws, BuildTag, BuildDate, fatal, lastReg, pgIn, pgRet>>

\* no request is inside a handler
Quiet == \A g \in Goroutines : inflight[g] = Idle

\* the method ids the caller of SpecLive registers
LiveMethodIds == {Get, Post}

LiveRequests == [method : {"GET", "OPTIONS", "POST"}, tail : {"foobar", "_heartbeat"}]

InitLive == InitController

NextLive ==
    \/ \E m \in LiveMethodIds : Quiet /\ DoAddMethodHandler(1, m, "h1")
    \/ Wiring /\ DoGetAllowedMethods(1)
    \/ Wiring /\ ~Added(1) /\ DoAddWebController(1)
    \/ Wiring /\ Added(1) /\ DoBuildRouter
    \/ \E g \in Goroutines, req \in LiveRequests : DoServeEnter(g, req)
    \/ \E g \in Goroutines : DoServeFinish(g)

SpecLive == InitLive /\ [][NextLive]_vars

(***************************************************************************)
(* pagination.go: CurrentPage, OffsetFromPage and LimitAndOffset           *)
(***************************************************************************)
\* CurrentPage computed as offset / limit, the page counted from 0
CurrentPageZeroBased(offset, limit) ==
    IF limit = 0 THEN 0 ELSE Quo(offset, limit)

CurrentPage(offset, limit) ==
    IF limit = 0 THEN 0 ELSE Quo(Add(offset, limit), limit)

\* OffsetFromPage without the replacement of page 0 by page 1
OffsetFromPageKeepZero(page, limit) ==
    LET l == IF limit = 0 THEN DefaultLimit ELSE limit
    IN  Sub(Mul(page, l), l)

OffsetFromPage(page, limit) ==
    LET p == IF page = 0 THEN 1 ELSE page
        l == IF limit = 0 THEN DefaultLimit ELSE limit
    IN  Sub(Mul(p, l), l)

\* A query value is the text of the parameter, a sequence of characters;
\* url.Values.Get gives "" (here <<>>) for a parameter that is absent.
QueryGet(query, key) == query[key]

Digits == <<"0", "1", "2", "3", "4", "5", "6", "7", "8", "9">>

IsDigit(ch) == \E d \in 1 .. 10 : Digits[d] = ch

DigitValue(ch) == (CHOOSE d \in 1 .. 10 : Digits[d] = ch) - 1

\* the value of the digits of text from position i on, with n read so far;
\* -1 for a character that is no digit
RECURSIVE ParseDigits(_, _, _)
ParseDigits(text, i, n) ==
    IF i > Len(text) THEN n
    ELSE IF ~IsDigit(text[i]) THEN -1
    ELSE ParseDigits(text, i + 1, n * 10 + DigitValue(text[i]))

\* strconv.ParseInt(text, 10, 64): an optional sign and decimal digits; an
\* error for anything else and for a value out of the range of the type
ParseInt(text) ==
    LET signed == text # <<>> /\ text[1] \in {"+", "-"}
        digits == IF signed THEN Tail(text) ELSE text
        n      == IF digits = <<>> THEN -1 ELSE ParseDigits(digits, 1, 0)
        v      == IF signed /\ text[1] = "-" THEN -n ELSE n
    IN  IF n < 0 \/ v < MinInt \/ v > MaxInt
        THEN [ok |-> FALSE, v |-> 0]
        ELSE [ok |-> TRUE, v |-> v]

StatusBadRequest == 400

maxLimit == 250

NoError == [rule |-> "nil"]

\* return limit, offset, http.StatusOK, nil
Succeed(limit, offset) ==
    [outcome |-> "return", limit |-> limit, offset |-> offset,
     status |-> StatusOK, err |-> NoError]

\* return 0, 0, http.StatusBadRequest, fmt.Errorf(...): the error names the
\* parameter, the rule it broke and the value
Fail(param, rule, value) ==
    [outcome |-> "return", limit |-> 0, offset |-> 0,
     status |-> StatusBadRequest,
     err |-> [rule |-> rule, param |-> param, value |-> value]]

\* the run-time panic of an integer division by zero
Panic == [outcome |-> "panic"]

\* the limit parameter chosen with "limit" before "per_page"
LimitParamLimitFirst(query) ==
    IF QueryGet(query, "limit") # <<>> THEN "limit" ELSE "per_page"

\* limitParam
LimitParam(query) ==
    IF QueryGet(query, "per_page") # <<>> THEN "per_page" ELSE "limit"

\* the checks of a limit without the one for a multiple of 5
LimitRuleNoMultiple(limit) ==
    IF limit = DefaultLimit THEN ""
    ELSE IF limit < 1 THEN "cannot be zero or negative"
    ELSE IF limit > maxLimit THEN "cannot exceed 250"
    ELSE ""

\* the checks of a limit without the one for zero and negative values
LimitRuleNoPositive(limit) ==
    IF limit = DefaultLimit THEN ""
    ELSE IF Rem(limit, 5) # 0 THEN "must be a multiple of 5"
    ELSE IF limit > maxLimit THEN "cannot exceed 250"
    ELSE ""

\* the rule a limit other than the default breaks, "" if none
LimitRule(limit) ==
    IF limit = DefaultLimit THEN ""
    ELSE IF limit < 1 THEN "cannot be zero or negative"
    ELSE IF Rem(limit, 5) # 0 THEN "must be a multiple of 5"
    ELSE IF limit > maxLimit THEN "cannot exceed 250"
    ELSE ""

\* the page branch with the offset taken as page*limit
PageStageNoSubtract(query, limit, offset) ==
    IF offset = DefaultOffset /\ QueryGet(query, "page") # <<>>
    THEN LET inPage == ParseInt(QueryGet(query, "page"))
         IN  IF ~inPage.ok THEN Fail("page", "is not a number", QueryGet(query, "page"))
             ELSE IF inPage.v <= 0 THEN Fail("page", "must be 1 or higher", inPage.v)
             ELSE Succeed(limit, Mul(inPage.v, limit))
    ELSE Succeed(limit, offset)

\* from "if offset == DefaultOffset && page != ..." to the final return
PageStage(query, limit, offset) ==
    IF offset = DefaultOffset /\ QueryGet(query, "page") # <<>>
    THEN LET inPage == ParseInt(QueryGet(query, "page"))
         IN  IF ~inPage.ok THEN Fail("page", "is not a number", QueryGet(query, "page"))
             ELSE IF inPage.v <= 0 THEN Fail("page", "must be 1 or higher", inPage.v)
             ELSE Succeed(limit, Sub(Mul(inPage.v, limit), limit))
    ELSE Succeed(limit, offset)

\* from "offset = DefaultOffset" on: inOffset % limit panics for limit = 0
OffsetStage(query, limit) ==
    IF QueryGet(query, "offset") # <<>>
    THEN LET inOffset == ParseInt(QueryGet(query, "offset"))
         IN  IF ~inOffset.ok THEN Fail("offset", "is not a number", QueryGet(query, "offset"))
             ELSE IF inOffset.v < 0 THEN Fail("offset", "cannot be negative", inOffset.v)
             ELSE IF limit = 0 THEN Panic
             ELSE IF Rem(inOffset.v, limit) # 0
                  THEN Fail("offset", "must be a multiple of limit or zero", inOffset.v)
             ELSE PageStage(query, limit, inOffset.v)
    ELSE PageStage(query, limit, DefaultOffset)

LimitAndOffset(query) ==
    LET limitParam == LimitParam(query)
        text       == QueryGet(query, limitParam)
        inLimit    == ParseInt(text)
        limit      == IF text # <<>> THEN inLimit.v ELSE DefaultLimit
    IN  IF text # <<>> /\ ~inLimit.ok THEN Fail(limitParam, "is not a number", text)
        ELSE IF LimitRule(limit) # "" THEN Fail(limitParam, LimitRule(limit), limit)
        ELSE OffsetStage(query, limit)

(***************************************************************************)
(* SpecPage: the arguments are drawn once, the functions are applied.      *)
(***************************************************************************)
PageMaxLimit == 26

PageTotals == MinInt .. MaxInt

PageLimits == -PageMaxLimit .. PageMaxLimit

InitPage ==
    /\ pgIn \in [total : PageTotals, limit : PageLimits]
    /\ pgRet = None
    /\ InitService
    /\ maps = NewWebService.maps
    /\ ctl = <<>>
    /\ lastReg = (HeartbeatMap :> (Get :> "heartbeat"))

CallPageCount ==
    /\ pgRet' = [op |-> "PageCount", value |-> PageCount(pgIn.total, pgIn.limit)]
    /\ UNCHANGED <<pgIn, svcVars>>

CallMaxOffset ==
    /\ pgRet' = [op |-> "MaxOffset", value |-> MaxOffset(pgIn.total, pgIn.limit)]
    /\ UNCHANGED <<pgIn, svcVars>>

NextPage ==
    \/ CallPageCount
    \/ CallMaxOffset

SpecPage == InitPage /\ [][NextPage]_vars

(***************************************************************************)
(* SpecOffset: a page and a limit are drawn, OffsetFromPage is applied and *)
(* CurrentPage is applied to the offset it returned.                       *)
(***************************************************************************)
PagePages == MinInt .. MaxInt

InitOffset ==
    /\ pgIn \in [page : PagePages, limit : PageLimits]
    /\ pgRet = None
    /\ InitService
    /\ maps = NewWebService.maps
    /\ ctl = <<>>
    /\ lastReg = (HeartbeatMap :> (Get :> "heartbeat"))

CallOffsetFromPage ==
    /\ pgRet' = [op |-> "OffsetFromPage", value |-> OffsetFromPage(pgIn.page, pgIn.limit)]
    /\ UNCHANGED <<pgIn, svcVars>>

CallCurrentPage ==
    /\ pgRet.op = "OffsetFromPage"
    /\ pgRet' = [op     |-> "CurrentPage",
                 offset |-> pgRet.value,
                 value  |-> CurrentPage(pgRet.value, pgIn.limit)]
    /\ UNCHANGED <<pgIn, svcVars>>

NextOffset ==
    \/ CallOffsetFromPage
    \/ CallCurrentPage

SpecOffset == InitOffset /\ [][NextOffset]_vars

(***************************************************************************)
(* SpecQuery: a query string is drawn, LimitAndOffset is applied.          *)
(***************************************************************************)
\* the texts given for the parameters: absent, no number, and numbers on
\* both sides of every check
PerPageTexts == {<<>>, <<"x">>, <<"7">>, <<"1", "0">>}

LimitTexts ==
    {<<>>, <<"x">>, <<"0">>, <<"-", "5">>, <<"7">>, <<"2", "0">>, <<"2", "5">>,
     <<"2", "5", "0">>, <<"2", "5", "5">>, <<"9", "9", "9", "9">>}

OffsetTexts ==
    {<<>>, <<"x">>, <<"-", "2", "0">>, <<"0">>, <<"2", "0">>, <<"2", "5">>,
     <<"3", "0">>, <<"4", "0">>}

PageTexts == {<<>>, <<"x">>, <<"0">>, <<"-", "1">>, <<"1">>, <<"3">>, <<"5", "0", "0">>}

Queries == [per_page : PerPageTexts, limit : LimitTexts, offset : OffsetTexts, page : PageTexts]

InitQuery ==
    /\ pgIn \in Queries
    /\ pgRet = None
    /\ InitService
    /\ maps = NewWebService.maps
    /\ ctl = <<>>
    /\ lastReg = (HeartbeatMap :> (Get :> "heartbeat"))

CallLimitAndOffset ==
    /\ pgRet' = [op |-> "LimitAndOffset", result |-> LimitAndOffset(pgIn)]
    /\ UNCHANGED <<pgIn, svcVars>>

NextQuery == CallLimitAndOffset

SpecQuery == InitQuery /\ [][NextQuery]_vars

(***************************************************************************)
(* SpecCore: a total, a limit and an offset are drawn, and a Core is       *)
(* populated from them.  The numbers are those around zero and those at    *)
(* the two ends of the type.                                               *)
(***************************************************************************)
\* m.Populate(total, limit, offset, contentType) on a zero Core
Populate(total, limit, offset, contentType) ==
    [Total     |-> total,
     Limit     |-> limit,
     Offset    |-> offset,
     MaxOffset |-> MaxOffset(total, limit),
     Pages     |-> PageCount(total, limit),
     Page      |-> CurrentPage(offset, limit),
     Type      |-> contentType]

CoreMaxTotal == 20

CoreMaxLimit == 6

CoreEdge == 4

CoreNumbers ==
    (-CoreMaxTotal .. CoreMaxTotal)
        \cup (MinInt .. (MinInt + CoreEdge))
        \cup ((MaxInt - CoreEdge) .. MaxInt)

CoreLimits == -CoreMaxLimit .. CoreMaxLimit

InitCore ==
    /\ pgIn \in [total : CoreNumbers, limit : CoreLimits, offset : CoreNumbers]
    /\ pgRet = None
    /\ InitService
    /\ maps = NewWebService.maps
    /\ ctl = <<>>
    /\ lastReg = (HeartbeatMap :> (Get :> "heartbeat"))

CallPopulate ==
    /\ pgRet' = [op   |-> "Populate",
                 core |-> Populate(pgIn.total, pgIn.limit, pgIn.offset, "items")]
    /\ UNCHANGED <<pgIn, svcVars>>

NextCore == CallPopulate

SpecCore == InitCore /\ [][NextCore]_vars

(***************************************************************************)
(* SpecRegistry: an id and a method name are drawn, and the functions of   *)
(* the method registry are applied to them; GetMethodID is also applied to *)
(* the name GetMethodName returned.                                        *)
(***************************************************************************)
RegistryMaxId == 10

RegistryIds == -RegistryMaxId .. RegistryMaxId

RegistryNames ==
    {"OPTIONS", "HEAD", "POST", "GET", "PUT", "PATCH", "DELETE", "CONNECT", "TRACE",
     "BREW", "get", ""}

InitRegistry ==
    /\ pgIn \in [id : RegistryIds, name : RegistryNames]
    /\ pgRet = None
    /\ InitService
    /\ maps = NewWebService.maps
    /\ ctl = <<>>
    /\ lastReg = (HeartbeatMap :> (Get :> "heartbeat"))

CallIsMethod ==
    /\ pgRet' = [op |-> "IsMethod", value |-> IsMethod(pgIn.id)]
    /\ UNCHANGED <<pgIn, svcVars>>

CallGetMethodName ==
    /\ pgRet' = [op |-> "GetMethodName", value |-> GetMethodName(pgIn.id)]
    /\ UNCHANGED <<pgIn, svcVars>>

CallGetMethodID ==
    /\ pgRet' = [op |-> "GetMethodID", name |-> pgIn.name, value |-> GetMethodID(pgIn.name)]
    /\ UNCHANGED <<pgIn, svcVars>>

\* GetMethodID(GetMethodName(id))
CallGetMethodIDOfName ==
    /\ pgRet.op = "GetMethodName"
    /\ pgRet' = [op |-> "GetMethodIDOfName", name |-> pgRet.value, value |-> GetMethodID(pgRet.value)]
    /\ UNCHANGED <<pgIn, svcVars>>

NextRegistry ==
    \/ CallIsMethod
    \/ CallGetMethodName
    \/ CallGetMethodID
    \/ CallGetMethodIDOfName

SpecRegistry == InitRegistry /\ [][NextRegistry]_vars

(***************************************************************************)
(* What the claims refer to.                                               *)
(***************************************************************************)
\* the methods registered on the controller with handler map id, from the
\* history of the AddMethodHandler calls
Registered(id) == DOMAIN lastReg[id]

\* the names of the methods in S together with HEAD and OPTIONS
AllowedNames(S) == {GetMethodName(m) : m \in S} \cup {"HEAD", "OPTIONS"}

Ascending(seq) == \A i, j \in 1 .. Len(seq) : i < j => StringLess(seq[i], seq[j])

\* the arrangements of AllowedNames(S), each name once, in ascending order
SortedArrangements(S) == {seq \in Orders(AllowedNames(S)) : Ascending(seq)}

IsController(i) == router[i].kind = "controller"

\* controller k of the WebService is the first one with its route
FirstWithRoute(k) == \A j \in 1 .. (k - 1) : ws[j].Route # ws[k].Route

Served == ret.op = "Serve"

\* the request names one of the nine methods, and not HEAD or OPTIONS
PlainMethod(name) ==
    name \in {"POST", "GET", "PUT", "PATCH", "DELETE", "CONNECT", "TRACE"}

\* the paths of the routes BuildRouter adds on its own
SynthesizedPaths ==
    {ExternalRoutes[i] : i \in 1 .. Len(ExternalRoutes)} \cup {VersionRoute, root}

ControllerPaths == {ws[k].Route : k \in 1 .. Len(ws)}

(***************************************************************************)
(* C1.  GetAllowedMethods on a controller returns the names of the methods *)
(* registered on it with AddMethodHandler together with HEAD and OPTIONS,  *)
(* each exactly once, in ascending order, joined by commas; {GET, POST}    *)
(* gives "GET,HEAD,OPTIONS,POST" and no registration gives "HEAD,OPTIONS". *)
(***************************************************************************)
C1_AllowedMethodsSorted ==
    ret.op = "GetAllowedMethods" =>
        LET S == Registered(ctl[ret.c].handlers)
        IN  /\ \E seq \in SortedArrangements(S) : ret.value = Join(seq, ",")
            /\ S = {3, 2} => ret.value = "GET,HEAD,OPTIONS,POST"
            /\ S = {} => ret.value = "HEAD,OPTIONS"

C1_Witness ==
    /\ ret.op = "GetAllowedMethods"
    /\ Registered(ctl[ret.c].handlers) = {3, 2}
    /\ ret.order = <<2, 3>>
    /\ ret.value = "GET,HEAD,OPTIONS,POST"

(***************************************************************************)
(* C2.  For a method id that is neither HEAD nor OPTIONS and has no        *)
(* registered handler, ids outside the enumeration included, the function  *)
(* GetMethodHandler returns answers 405, sets Allow to the list            *)
(* GetAllowedMethods returns and writes the error                          *)
(* "405 Method Not Allowed. Allowed: <list>".                              *)
(***************************************************************************)
C2_MethodNotAllowed ==
    (/\ ret.op = "GetMethodHandler"
     /\ ret.m \notin {0, 1}
     /\ ret.m \notin Registered(ctl[ret.c].handlers)) =>
        /\ ret.resp.handler = "notallowed"
        /\ ret.resp.status = 405
        /\ ret.resp.allow = ctl[ret.c].allowed
        /\ \E seq \in SortedArrangements(Registered(ctl[ret.c].handlers)) :
              ret.resp.allow = Join(seq, ",")
        /\ ret.resp.body =
              [kind |-> "json", error |-> "405 Method Not Allowed. Allowed: " \o ret.resp.allow]

C2_Witness ==
    /\ ret.op = "GetMethodHandler"
    /\ ret.m = 9
    /\ Registered(ctl[ret.c].handlers) = {3, 2}
    /\ ret.resp.status = 405
    /\ ret.resp.allow = "GET,HEAD,OPTIONS,POST"
    /\ ret.resp.body.error = "405 Method Not Allowed. Allowed: GET,HEAD,OPTIONS,POST"

(***************************************************************************)
(* C3.  A HEAD or OPTIONS request dispatched to a controller, whatever     *)
(* handlers it has, is answered by the synthesized responder: status 200,  *)
(* Allow equal to the controller's GetAllowedMethods(), Content-Length 0,  *)
(* an empty body, and no caller handler is invoked.                        *)
(***************************************************************************)
C3_HeadAndOptions ==
    (/\ Served
     /\ IsController(ret.route)
     /\ ret.req.method \in {"HEAD", "OPTIONS"}) =>
        /\ ret.resp.handler = "options"
        /\ ret.resp.handler \notin UserHandlers \cup {"heartbeat"}
        /\ ret.resp.status = 200
        /\ ret.resp.allow = router[ret.route].wc.allowed
        /\ ret.resp.allow # ""
        /\ ret.resp.contentLength = "0"
        /\ ret.resp.body = [kind |-> "empty"]

C3_Witness ==
    /\ Served
    /\ IsController(ret.route)
    /\ ret.req.method = "HEAD"
    /\ Registered(router[ret.route].wc.handlers) = {3}
    /\ router[ret.route].wc.handlers # 0
    /\ ret.resp.status = 200
    /\ ret.resp.allow = "GET,HEAD,OPTIONS"

\* what C4 says of controller k of the WebService and the request served
HandlerServes(k) ==
    LET m == GetMethodID(ret.req.method)
        id == ws[k].handlers
    IN  (/\ PlainMethod(ret.req.method)
         /\ Path(ret.req) = ws[k].Route
         /\ m \in Registered(id)) =>
            /\ ret.resp.handler = lastReg[id][m]
            /\ ret.resp.allow = ""
            /\ ret.resp.contentLength = ""
            /\ lastReg[id][m] \in UserHandlers =>
                  /\ ret.resp.status = 200
                  /\ ret.resp.body = [kind |-> "text", text |-> lastReg[id][m]]

C5_ReservedAndInvalidAreFatal ==
    /\ (ret.op = "AddMethodHandler" /\ ret.m = 0) =>
          fatal = "Cannot set OPTIONS, this is provided for you"
    /\ (ret.op = "AddMethodHandler" /\ ret.m = 1) =>
          fatal = "Cannot set HEAD, this is provided for you"
    /\ (ret.op = "AddMethodHandler" /\ ret.m \notin 0 .. 8) => fatal # ""
    /\ \A id \in DOMAIN maps : DOMAIN maps[id] \subseteq 2 .. 8

C5_Witness ==
    /\ ret.op = "AddMethodHandler"
    /\ ret.m = 1
    /\ fatal = "Cannot set HEAD, this is provided for you"
    /\ DOMAIN maps[1] = {3}

(***************************************************************************)
(* C6.  In the table BuildRouter built, a request is answered by the       *)
(* catch-all handler exactly when its path matches no controller route and *)
(* no synthesized route; the catch-all answers 404 with the error          *)
(* "/<path> not found" ("/foobar not found" for /foobar).                  *)
(***************************************************************************)
C6_CatchAllOnlyWhenUnmatched ==
    Served =>
        /\ (ret.resp.handler = "notfound") <=>
              (Path(ret.req) \notin ControllerPaths \cup SynthesizedPaths)
        /\ ret.resp.handler = "notfound" =>
              /\ ret.resp.status = 404
              /\ ret.resp.body = [kind |-> "json", error |-> Path(ret.req) \o " not found"]
              /\ ret.req.tail = "foobar" => ret.resp.body.error = "/foobar not found"

C6_Witness ==
    /\ Served
    /\ ret.req = [method |-> "GET", tail |-> "foobar"]
    /\ Len(ws) > 1
    /\ ret.resp.status = 404
    /\ ret.resp.body.error = "/foobar not found"

\* BuildRouter installed a synthesized handler of this kind
Installed(kind) == \E i \in 1 .. Len(router) : router[i].kind = kind

\* the request served went to a caller's controller with this route
ServedByCallerAt(route) ==
    /\ IsController(ret.route)
    /\ router[ret.route].wc.Route = route
    /\ router[ret.route].wc.handlers # 0
    /\ ret.resp.handler \notin {"version", "index"}

\* what C7 says of a path and the handler BuildRouter synthesizes for it
Overridable(route, kind) ==
    IF route \in ControllerPaths
    THEN /\ ~Installed(kind)
         /\ (Served /\ Path(ret.req) = route) => ServedByCallerAt(route)
    ELSE /\ \E i \in 1 .. Len(router) : router[i].kind = kind /\ router[i].pattern = route
         /\ (Served /\ Path(ret.req) = route) => ret.resp.handler = kind

(***************************************************************************)
(* C7.  If a controller added to the WebService has the version path       *)
(* (respectively "/") as its route, BuildRouter installs no synthesized    *)
(* version handler (respectively no root index) and requests to that path  *)
(* are served by the caller's controller; otherwise the synthesized        *)
(* handler is installed and serves the path.                               *)
(***************************************************************************)
C7_CallerOverridesVersionAndRoot ==
    router # <<>> =>
        /\ Overridable("/_version", "version")
        /\ Overridable("/", "index")

C7_Witness ==
    /\ Served
    /\ ret.req = [method |-> "GET", tail |-> "_version"]
    /\ "/_version" \in ControllerPaths
    /\ "/" \notin ControllerPaths
    /\ ~Installed("version")
    /\ Installed("index")
    /\ ret.resp.handler = "h1"

(***************************************************************************)
(* C8.  With no caller controller added, GET on the heartbeat path and GET *)
(* on the version path both answer 200 with the version payload whose      *)
(* build and buildDate are the current BuildTag and BuildDate.             *)
(***************************************************************************)
C8_DefaultHeartbeatAndVersion ==
    (/\ Served
     /\ Len(ws) = 1
     /\ ret.req.method = "GET"
     /\ ret.req.tail \in {"_heartbeat", "_version"}) =>
        /\ ret.resp.status = 200
        /\ ret.resp.body.kind = "json"
        /\ ret.resp.body.value.build = BuildTag
        /\ ret.resp.body.value.buildDate = BuildDate

C8_Witness ==
    /\ Served
    /\ Len(ws) = 1
    /\ ret.req = [method |-> "GET", tail |-> "_version"]
    /\ BuildTag = "a1b2c3d"
    /\ ret.resp.status = 200
    /\ ret.resp.body.value.build = "a1b2c3d"
    /\ ret.resp.body.value.buildDate = "2016-03-01T12:00:00Z"

\* the limit a call works with: 0 stands for the default
EffectiveLimit(limit) == IF limit = 0 THEN 25 ELSE limit

(***************************************************************************)
(* C9.  For total >= 0 and limit > 0, PageCount(total, limit) is 0 exactly *)
(* when total = 0, and otherwise it is the smallest integer n with         *)
(* n * limit >= total.                                                     *)
(***************************************************************************)
C9_PageCountIsCeiling ==
    (pgRet.op = "PageCount" /\ pgIn.total >= 0 /\ pgIn.limit > 0) =>
        /\ (pgRet.value = 0) <=> (pgIn.total = 0)
        /\ pgRet.value * pgIn.limit >= pgIn.total
        /\ (pgRet.value - 1) * pgIn.limit < pgIn.total
        /\ (pgIn.total = 26 /\ pgIn.limit = 25) => pgRet.value = 2
        /\ (pgIn.total = 0 /\ pgIn.limit = 25) => pgRet.value = 0

C9_Witness ==
    /\ pgRet.op = "PageCount"
    /\ pgIn.total = 26
    /\ pgIn.limit = 25
    /\ pgRet.value = 2

(***************************************************************************)
(* C10 as stated.  For every total and limit, MaxOffset(total, limit) is a *)
(* multiple of the effective limit and is at most total.                   *)
(***************************************************************************)
C10_Original ==
    pgRet.op = "MaxOffset" =>
        /\ Rem(pgRet.value, EffectiveLimit(pgIn.limit)) = 0
        /\ pgRet.value <= pgIn.total

(***************************************************************************)
(* C10 amended.  For every total and limit, MaxOffset(total, limit) is a   *)
(* multiple of the effective limit; for total >= 0 it is at most total.    *)
(***************************************************************************)
C10_MaxOffsetMultipleAndBounded ==
    pgRet.op = "MaxOffset" =>
        /\ Rem(pgRet.value, EffectiveLimit(pgIn.limit)) = 0
        /\ pgIn.total >= 0 => pgRet.value <= pgIn.total

C10_Witness ==
    /\ pgRet.op = "MaxOffset"
    /\ pgIn.total = 26
    /\ pgIn.limit = 0
    /\ pgRet.value = 25

(***************************************************************************)
(* C11 as stated.  MaxOffset(0, limit) = 0 for every limit >= 1 and for    *)
(* limit = 0, and MaxOffset(total, limit) >= 0 whenever total >= 0 (for    *)
(* these limits).                                                          *)
(***************************************************************************)
C11_Original ==
    (pgRet.op = "MaxOffset" /\ pgIn.limit >= 0) =>
        /\ pgIn.total = 0 => pgRet.value = 0
        /\ pgIn.total >= 0 => pgRet.value >= 0

\* the round trip of C12 was made from a page p >= 1 with a limit L > 0
RoundTrip == pgRet.op = "CurrentPage" /\ pgIn.page >= 1 /\ pgIn.limit > 0

(***************************************************************************)
(* C12 as stated.  For all p >= 1 and L > 0,                               *)
(* CurrentPage(OffsetFromPage(p, L), L) = p.                               *)
(***************************************************************************)
C12_Original ==
    RoundTrip => pgRet.value = pgIn.page

(***************************************************************************)
(* C12 amended.  For all p >= 1 and L > 0,                                 *)
(* CurrentPage(OffsetFromPage(p, L), L) = p exactly when p * L does not    *)
(* exceed the largest integer of the type.                                 *)
(***************************************************************************)
C12_RoundTripWithinRange ==
    RoundTrip => ((pgRet.value = pgIn.page) <=> (pgIn.page * pgIn.limit <= MaxInt))

C12_Witness ==
    /\ pgRet.op = "CurrentPage"
    /\ pgIn.page = 3
    /\ pgIn.limit = 20
    /\ pgRet.offset = 40
    /\ pgRet.value = 3

(***************************************************************************)
(* C13.  OffsetFromPage(page, limit) is page*limit - limit, in the         *)
(* arithmetic of the type, after page 0 is replaced by 1 and limit 0 by    *)
(* 25; so pages 0 and 1 both give 0, and page >= 1 with L >= 1 gives       *)
(* (page-1)*L (page 3 with limit 20 gives 40).                             *)
(***************************************************************************)
C13_OffsetFromPage ==
    pgRet.op = "OffsetFromPage" =>
        LET p == IF pgIn.page = 0 THEN 1 ELSE pgIn.page
            l == IF pgIn.limit = 0 THEN 25 ELSE pgIn.limit
        IN  /\ pgRet.value = Wrap(p * l - l)
            /\ pgIn.page \in {0, 1} => pgRet.value = 0
            /\ (pgIn.page >= 1 /\ pgIn.limit >= 1) =>
                  pgRet.value = Wrap((pgIn.page - 1) * pgIn.limit)
            /\ (pgIn.page = 3 /\ pgIn.limit = 20) => pgRet.value = 40

C13_Witness ==
    /\ pgRet.op = "OffsetFromPage"
    /\ pgIn.page = 0
    /\ pgIn.limit = 0
    /\ pgRet.value = 0

(***************************************************************************)
(* What the claims about LimitAndOffset refer to.                          *)
(***************************************************************************)
Called == pgRet.op = "LimitAndOffset"

Present(key) == pgIn[key] # <<>>

\* the call returned (limit, offset, 200, nil)
Ok(limit, offset) ==
    /\ pgRet.result.outcome = "return"
    /\ pgRet.result.status = 200
    /\ pgRet.result.err.rule = "nil"
    /\ pgRet.result.limit = limit
    /\ pgRet.result.offset = offset

\* the call returned (0, 0, 400, err) with err not nil
Bad ==
    /\ pgRet.result.outcome = "return"
    /\ pgRet.result.status = 400
    /\ pgRet.result.err.rule # "nil"
    /\ pgRet.result.limit = 0
    /\ pgRet.result.offset = 0

\* the parameter the limit is to come from: per_page before limit
Winner == IF Present("per_page") THEN "per_page" ELSE "limit"

\* the number the limit is to be resolved to, if the text is one
Supplied ==
    IF Present(Winner) THEN ParseInt(pgIn[Winner]) ELSE [ok |-> TRUE, v |-> 25]

LimitValid ==
    /\ Supplied.ok
    /\ Supplied.v >= 1
    /\ Supplied.v % 5 = 0
    /\ Supplied.v <= 250

(***************************************************************************)
(* C14.  LimitAndOffset takes the limit from per_page when it is present,  *)
(* even if limit is present too, otherwise from limit when present,        *)
(* otherwise 25; the parameter that lost is neither parsed nor validated.  *)
(***************************************************************************)
C14_LimitPrecedence ==
    Called =>
        /\ pgRet.result.status = 200 => pgRet.result.limit = Supplied.v
        /\ (pgRet.result.status = 400 /\ pgRet.result.err.param \in {"per_page", "limit"}) =>
              pgRet.result.err.param = Winner
        /\ Present("per_page") =>
              \A text \in LimitTexts :
                  LimitAndOffset([pgIn EXCEPT !.limit = text]) = pgRet.result

C14_Witness ==
    /\ Called
    /\ pgIn.per_page = <<"1", "0">>
    /\ pgIn.limit = <<"7">>
    /\ pgIn.offset = <<>>
    /\ pgIn.page = <<>>
    /\ Ok(10, 0)

(***************************************************************************)
(* C15.  LimitAndOffset returns a 400 error whenever the limit supplied    *)
(* (by limit or per_page) is no integer, is < 1, is no multiple of 5 or    *)
(* exceeds 250; limit=7 is rejected, and every successful call returns a   *)
(* limit that is a multiple of 5 between 5 and 250.                        *)
(***************************************************************************)
C15_LimitValidated ==
    Called =>
        /\ ~LimitValid => (Bad /\ pgRet.result.err.param = Winner)
        /\ (pgIn.limit = <<"7">> /\ ~Present("per_page")) =>
              (Bad /\ pgRet.result.err.rule = "must be a multiple of 5")
        /\ pgRet.result.status = 200 =>
              /\ pgRet.result.limit % 5 = 0
              /\ pgRet.result.limit >= 5
              /\ pgRet.result.limit <= 250

C15_Witness ==
    /\ Called
    /\ pgIn.limit = <<"7">>
    /\ ~Present("per_page")
    /\ Bad
    /\ pgRet.result.err = [rule |-> "must be a multiple of 5", param |-> "limit", value |-> 7]

(***************************************************************************)
(* C16 as stated.  When offset is present (and the limit resolved is       *)
(* valid), LimitAndOffset returns a 400 error if offset is no integer, is  *)
(* negative or is no multiple of the resolved limit; otherwise the offset  *)
(* returned is the value supplied.                                         *)
(***************************************************************************)
C16_Original ==
    (Called /\ Present("offset") /\ LimitValid) =>
        LET inOffset == ParseInt(pgIn.offset)
        IN  IF ~inOffset.ok \/ inOffset.v < 0 \/ inOffset.v % Supplied.v # 0
            THEN Bad /\ pgRet.result.err.param = "offset"
            ELSE Ok(Supplied.v, inOffset.v)

(***************************************************************************)
(* C17.  When offset is absent and page is present (and the limit resolved *)
(* is valid), LimitAndOffset returns a 400 error if page is no integer or  *)
(* is < 1, and otherwise the offset page*limit - limit in the arithmetic   *)
(* of the type (page=3, limit=20 gives (20, 40, 200, nil)); when neither   *)
(* is present the offset is 0.                                             *)
(***************************************************************************)
C17_OffsetFromPageParameter ==
    (Called /\ ~Present("offset") /\ LimitValid) =>
        LET inPage == ParseInt(pgIn.page)
        IN  /\ (Present("page") /\ (~inPage.ok \/ inPage.v < 1)) =>
                  (Bad /\ pgRet.result.err.param = "page")
            /\ (Present("page") /\ inPage.ok /\ inPage.v >= 1) =>
                  Ok(Supplied.v, Wrap(inPage.v * Supplied.v - Supplied.v))
            /\ ~Present("page") => Ok(Supplied.v, 0)
            /\ (pgIn.page = <<"3">> /\ pgIn.limit = <<"2", "0">> /\ ~Present("per_page")) =>
                  Ok(20, 40)

C17_Witness ==
    /\ Called
    /\ pgIn = [per_page |-> <<>>, limit |-> <<"2", "0">>, offset |-> <<>>, page |-> <<"3">>]
    /\ Ok(20, 40)

(***************************************************************************)
(* C18 as stated.  For every query in which offset is present with a valid *)
(* value, offset=0 included, the result of LimitAndOffset is the result    *)
(* for the same query without page.                                        *)
(***************************************************************************)
C18_Original ==
    (/\ Called
     /\ Present("offset")
     /\ LimitValid
     /\ ParseInt(pgIn.offset).ok
     /\ ParseInt(pgIn.offset).v >= 0
     /\ ParseInt(pgIn.offset).v % Supplied.v = 0) =>
        pgRet.result = LimitAndOffset([pgIn EXCEPT !.page = <<>>])

(***************************************************************************)
(* C19.  Every call of LimitAndOffset returns (limit, offset, 200, nil) or *)
(* (0, 0, 400, err) with err not nil: the status is 200 exactly when the   *)
(* error is nil, a failure has limit and offset 0, and no input makes the  *)
(* call panic on a remainder by a zero limit.                              *)
(***************************************************************************)
C19_ResultShape ==
    Called =>
        /\ pgRet.result.outcome = "return"
        /\ pgRet.result.status \in {200, 400}
        /\ (pgRet.result.status = 200) <=> (pgRet.result.err.rule = "nil")
        /\ pgRet.result.status = 400 => Bad
        /\ pgRet.result.status = 200 => pgRet.result.limit # 0

C19_Witness ==
    /\ Called
    /\ pgIn.limit = <<"0">>
    /\ ~Present("per_page")
    /\ pgIn.offset = <<"2", "0">>
    /\ Bad
    /\ pgRet.result.err.rule = "cannot be zero or negative"

\* the nine method names of the registry
MethodNames == {"OPTIONS", "HEAD", "POST", "GET", "PUT", "PATCH", "DELETE", "CONNECT", "TRACE"}

(***************************************************************************)
(* C20 as stated.  A request whose method name is none of the nine names   *)
(* is answered through the 405 path of the controller for its route:       *)
(* status 405 with the Allow header, not the OPTIONS responder and not a   *)
(* registered handler.                                                     *)
(***************************************************************************)
C20_Original ==
    (Served /\ IsController(ret.route) /\ ret.req.method \notin MethodNames) =>
        /\ ret.resp.handler = "notallowed"
        /\ ret.resp.status = 405
        /\ ret.resp.allow # ""

Populated == pgRet.op = "Populate"

\* what C27 says of limit = 0
ZeroLimitIsDefault ==
    pgIn.limit = 0 =>
        /\ pgRet.core.Pages = PageCount(pgIn.total, 25)
        /\ pgRet.core.MaxOffset = MaxOffset(pgIn.total, 25)
        /\ pgRet.core.Page = 0

(***************************************************************************)
(* C27 as stated.  With limit = 0, PageCount and MaxOffset give what they  *)
(* give for limit 25 for every total, and CurrentPage gives 0 for every    *)
(* offset; with limit > 0 and offset >= 0, CurrentPage is                  *)
(* (offset + limit) / limit, the 1-based number of the page holding        *)
(* offset.                                                                 *)
(***************************************************************************)
C27_Original ==
    Populated =>
        /\ ZeroLimitIsDefault
        /\ (pgIn.limit > 0 /\ pgIn.offset >= 0) =>
              /\ pgRet.core.Page = (pgIn.offset + pgIn.limit) \div pgIn.limit
              /\ pgRet.core.Page = (pgIn.offset \div pgIn.limit) + 1

(***************************************************************************)
(* C27 amended.  The same, with the statement about limit > 0 and          *)
(* offset >= 0 kept to the offsets for which offset + limit does not       *)
(* exceed the largest integer of the type.                                 *)
(***************************************************************************)
C27_ZeroLimit ==
    Populated =>
        /\ ZeroLimitIsDefault
        /\ (pgIn.limit > 0 /\ pgIn.offset >= 0 /\ pgIn.offset + pgIn.limit <= MaxInt) =>
              /\ pgRet.core.Page = (pgIn.offset + pgIn.limit) \div pgIn.limit
              /\ pgRet.core.Page = (pgIn.offset \div pgIn.limit) + 1

C27_Witness ==
    /\ Populated
    /\ pgIn.limit = 0
    /\ pgIn.total = 20
    /\ pgIn.offset = 5
    /\ pgRet.core.Pages = 1
    /\ pgRet.core.MaxOffset = 0
    /\ pgRet.core.Page = 0

\* what C30 says of the Core populated from total, limit and offset
Consistent ==
    /\ pgIn.offset = pgRet.core.MaxOffset => pgRet.core.Page = pgRet.core.Pages
    /\ (/\ pgIn.offset % pgIn.limit = 0
        /\ 0 <= pgIn.offset
        /\ pgIn.offset <= pgRet.core.MaxOffset) =>
           (1 <= pgRet.core.Page /\ pgRet.core.Page <= pgRet.core.Pages)

(***************************************************************************)
(* C30 as stated.  For every total >= 1 and limit >= 1,                    *)
(* CurrentPage(MaxOffset(total, limit), limit) = PageCount(total, limit),  *)
(* and every offset that is a multiple of limit with                       *)
(* 0 <= offset <= MaxOffset(total, limit) has                              *)
(* 1 <= CurrentPage(offset, limit) <= PageCount(total, limit).             *)
(***************************************************************************)
C30_Original ==
    (Populated /\ pgIn.total >= 1 /\ pgIn.limit >= 1) => Consistent

(***************************************************************************)
(* C30 amended.  The same for every total >= 1 and limit >= 1 for which    *)
(* MaxOffset(total, limit) + limit does not exceed the largest integer of  *)
(* the type; for the others the page of the maximal offset is not the page *)
(* count.                                                                  *)
(***************************************************************************)
C30_ConsistentWithinRange ==
    (Populated /\ pgIn.total >= 1 /\ pgIn.limit >= 1) =>
        IF pgRet.core.MaxOffset + pgIn.limit <= MaxInt
        THEN Consistent
        ELSE pgIn.offset = pgRet.core.MaxOffset => pgRet.core.Page # pgRet.core.Pages

C30_Witness ==
    /\ Populated
    /\ pgIn = [total |-> 11, limit |-> 5, offset |-> 10]
    /\ pgRet.core.MaxOffset = 10
    /\ pgRet.core.Pages = 3
    /\ pgRet.core.Page = 3

(***************************************************************************)
(* C28.  IsMethod(id) holds exactly for the ids 0..8; for each of them     *)
(* GetMethodName(id) is a non-empty upper-case name, different for         *)
(* different ids, and GetMethodID(GetMethodName(id)) = id; GetMethodName   *)
(* of any other id is ""; GetMethodID of a name that is none of the nine   *)
(* is 0, the id of OPTIONS.                                                *)
(***************************************************************************)
C28_RegistryBijection ==
    /\ pgRet.op = "IsMethod" => (pgRet.value <=> pgIn.id \in 0 .. 8)
    /\ pgRet.op = "GetMethodName" =>
          IF pgIn.id \in 0 .. 8
          THEN pgRet.value =
                  <<"OPTIONS", "HEAD", "POST", "GET", "PUT", "PATCH", "DELETE",
                    "CONNECT", "TRACE">>[pgIn.id + 1]
          ELSE pgRet.value = ""
    /\ (pgRet.op = "GetMethodIDOfName" /\ pgIn.id \in 0 .. 8) => pgRet.value = pgIn.id
    /\ (pgRet.op = "GetMethodID" /\ pgRet.name \notin MethodNames) =>
          (pgRet.value = 0 /\ pgRet.value = GetMethodID("OPTIONS"))

C28_Witness ==
    /\ pgRet.op = "GetMethodIDOfName"
    /\ pgIn.id = 8
    /\ pgRet.name = "TRACE"
    /\ pgRet.value = 8

(***************************************************************************)
(* C29 as stated.  Every successful result (limit, offset, 200, nil) of    *)
(* LimitAndOffset has 1 <= limit <= 250, offset >= 0 and offset a multiple *)
(* of limit, for every query, also for pages so large that page*limit      *)
(* exceeds the range of the type.                                          *)
(***************************************************************************)
C29_Original ==
    (Called /\ pgRet.result.outcome = "return" /\ pgRet.result.status = 200) =>
        /\ 1 <= pgRet.result.limit
        /\ pgRet.result.limit <= 250
        /\ pgRet.result.offset >= 0
        /\ pgRet.result.offset % pgRet.result.limit = 0

\* the sorted list of the methods now in handler map id, with HEAD and OPTIONS
CurrentList(id) ==
    Join(SortStrings(<<"HEAD", "OPTIONS">>
                     \o NamesOf(CHOOSE order \in Orders(DOMAIN maps[id]) : TRUE)), ",")

\* the EndPoints of the index of the table, <<>> when it has none
IndexLinks == IndexOf(router)

\* a request answered by a controller with the list of its allowed methods
AnsweredWithAllow ==
    /\ ret.op = "Serve"
    /\ IsController(ret.route)
    /\ ret.resp.handler \in {"options", "notallowed"}

(***************************************************************************)
(* C21 as stated.  Every value GetAllowedMethods returns is the sorted     *)
(* list of the methods currently in the handler map plus HEAD and OPTIONS: *)
(* the value the caller gets, the Allow header of every OPTIONS, HEAD and  *)
(* 405 answer of the dispatch closure, and the methods of every            *)
(* controller's descriptor in the index BuildRouter has just built, also   *)
(* when the caller added a handler after AddWebController.                 *)
(***************************************************************************)
C21_Original ==
    /\ ret.op = "GetAllowedMethods" => ret.value = CurrentList(ctl[ret.c].handlers)
    /\ AnsweredWithAllow =>
          ret.resp.allow = CurrentList(router[ret.route].wc.handlers)
    /\ ret.op = "BuildRouter" =>
          \A k \in 1 .. Len(ws) :
             \E j \in 1 .. Len(IndexLinks) :
                IndexLinks[j] = [URL |-> ws[k].Route, Methods |-> CurrentList(ws[k].handlers)]

\* two goroutines stand between the read of the same closure's empty memo
\* and their assignment to it
Racing ==
    \E g, h \in Goroutines :
       /\ g # h
       /\ inflight[g] # Idle
       /\ inflight[h] # Idle
       /\ inflight[g].route = inflight[h].route

(***************************************************************************)
(* C22 as stated.  Once BuildRouter has returned, serving requests writes  *)
(* nothing: the memo of every dispatch closure is still the one it was     *)
(* built with (that of the controller in the WebService), and no two       *)
(* request goroutines are about to assign the same memo.                   *)
(***************************************************************************)
C22_Original ==
    /\ \A i \in 1 .. Len(router) :
          IsController(i) => router[i].wc.allowed = ws[router[i].idx].allowed
    /\ ~Racing

\* the position in the WebService of the first controller with this route
FirstAt(route) == CHOOSE j \in 1 .. Len(ws) : ws[j].Route = route /\ FirstWithRoute(j)

\* the request served was answered by controller j of the WebService
AnsweredBy(j) ==
    LET m == GetMethodID(ret.req.method)
    IN  /\ IsController(ret.route)
        /\ router[ret.route].idx = j
        /\ router[ret.route].wc.handlers = ws[j].handlers
        /\ ret.resp.handler =
              IF m \in {Options, HeadMethod} THEN "options"
              ELSE IF m \in Registered(ws[j].handlers) THEN lastReg[ws[j].handlers][m]
              ELSE "notallowed"

(***************************************************************************)
(* C23.  When a controller of the WebService has the route of one added    *)
(* before it, every request to that route is answered by the one added     *)
(* first: by the handler that one registered for the method, or by its     *)
(* OPTIONS or 405 answer, whatever the later one registered.               *)
(***************************************************************************)
C23_FirstAddedServes ==
    Served =>
        \A k \in 1 .. Len(ws) :
           (ws[k].Route = Path(ret.req) /\ ~FirstWithRoute(k)) =>
               AnsweredBy(FirstAt(ws[k].Route))

C23_Witness ==
    /\ Served
    /\ ret.req = [method |-> "GET", tail |-> "_heartbeat"]
    /\ Len(ws) = 2
    /\ ws[2].Route = ws[1].Route
    /\ lastReg[ws[2].handlers] = (Get :> "h1")
    /\ ret.resp.handler = "heartbeat"

\* the WebService holds a controller of the caller with the heartbeat route
CallerClaimsHeartbeat ==
    \E k \in 1 .. Len(ws) : ws[k].Route = HeartbeatRoute /\ ws[k].handlers # HeartbeatMap

(***************************************************************************)
(* C24 as stated.  When the caller has added a controller whose route is   *)
(* the heartbeat path, requests to that path are served by the caller's    *)
(* controller and not by the synthesized heartbeat.                        *)
(***************************************************************************)
C24_Original ==
    (Served /\ Path(ret.req) = HeartbeatRoute /\ CallerClaimsHeartbeat) =>
        ServedByCallerAt(HeartbeatRoute)

(***************************************************************************)
(* C24 amended.  The heartbeat controller is the first controller of every *)
(* WebService and so the first route of every table: requests to the       *)
(* heartbeat path are answered by it, also when the caller has added a     *)
(* controller with that route.                                             *)
(***************************************************************************)
C24_HeartbeatAlwaysServes ==
    /\ Len(ws) >= 1
    /\ ws[1].Route = HeartbeatRoute
    /\ ws[1].handlers = HeartbeatMap
    /\ router # <<>> =>
          /\ router[1].pattern = HeartbeatRoute
          /\ IsController(1)
          /\ router[1].wc.handlers = HeartbeatMap
    /\ (Served /\ Path(ret.req) = HeartbeatRoute) =>
          /\ ret.route = 1
          /\ ret.req.method = "GET" => ret.resp.handler = "heartbeat"

C24_Witness ==
    /\ Served
    /\ CallerClaimsHeartbeat
    /\ ret.req = [method |-> "GET", tail |-> "_heartbeat"]
    /\ lastReg[ws[2].handlers] = (Get :> "h2")
    /\ ret.route = 1
    /\ ret.resp.handler = "heartbeat"
    /\ ret.resp.status = StatusOK

\* the two tables answer req alike: the same route, the same handler and
\* the same response, whatever order the range loop takes
AnswersAlike(old, new, req) ==
    LET i == FirstMatch(old, req)
        j == FirstMatch(new, req)
    IN  /\ old[i].pattern = new[j].pattern
        /\ old[i].kind = new[j].kind
        /\ old[i].kind = "controller" =>
              /\ old[i].wc.handlers = new[j].wc.handlers
              /\ GetMethodHandler(old[i].wc, GetHTTPMethod(req))
                    = GetMethodHandler(new[j].wc, GetHTTPMethod(req))
              /\ \A order \in KeyOrders(old[i].wc) :
                    ServeRoute(old[i], req, order).resp = ServeRoute(new[j], req, order).resp
        /\ old[i].kind # "controller" =>
              ServeRoute(old[i], req, <<>>).resp = ServeRoute(new[j], req, <<>>).resp

(***************************************************************************)
(* C25.  A call of BuildRouter leaves the controller list of the           *)
(* WebService and the handler maps as they were; when a table had been     *)
(* built before and no controller or handler was added since, the new      *)
(* table answers every request as the old one does and has the same root   *)
(* index.                                                                  *)
(***************************************************************************)
C25_BuildRouterIdempotent ==
    [][ret'.op = "BuildRouter" =>
          /\ ws' = ws
          /\ maps' = maps
          /\ router # <<>> =>
                /\ Len(router') = Len(router)
                /\ IndexOf(router') = IndexOf(router)
                /\ \A req \in Requests : AnswersAlike(router, router', req)]_vars

C25_Witness ==
    /\ ret = [op |-> "BuildRouter", again |-> TRUE]
    /\ Len(ws) = 2
    /\ ws[2].Route = "/foobar"
    /\ lastReg[ws[2].handlers] = (Get :> "h1")
    /\ \E i \in 1 .. Len(router) : router[i].kind = "index"

\* the descriptor of controller k of the WebService
ControllerEndPoint(k) ==
    [URL     |-> ws[k].Route,
     Methods |-> GetAllowedMethods(ws[k], CHOOSE order \in KeyOrders(ws[k]) : TRUE)]

\* the descriptors the index is to hold: one for every controller, the
\* profiler, the debug handlers, and the version when no controller has it
ExpectedEndPoints ==
    [k \in 1 .. Len(ws) |-> ControllerEndPoint(k)]
    \o <<[URL |-> "/_profiler/info.html", Methods |-> "GET"],
         [URL |-> "/_debug/pprof", Methods |-> "GET"]>>
    \o (IF VersionRoute \in ControllerPaths
        THEN <<>>
        ELSE <<[URL |-> VersionRoute, Methods |-> "GET"]>>)

\* no EndPoint comes before one with a smaller URL
SortedByURL(links) ==
    \A i, j \in 1 .. Len(links) : i < j => ~StringLess(links[j].URL, links[i].URL)

(***************************************************************************)
(* C26.  When no controller claims "/", the table has the index at "/":    *)
(* its list is sorted ascending by URL and holds one descriptor for every  *)
(* controller of the WebService, with the methods GetAllowedMethods gives  *)
(* for it, and the profiler, debug and (unless a controller has its route) *)
(* version descriptors, and a request to "/" is answered with status 200   *)
(* and that list.  When a controller claims "/", the table has no index    *)
(* and no request is answered by it.                                       *)
(***************************************************************************)
C26_Index ==
    router # <<>> =>
        IF root \notin ControllerPaths
        THEN /\ \E i \in 1 .. Len(router) :
                   router[i].kind = "index" /\ router[i].pattern = root
             /\ SortedByURL(IndexLinks)
             /\ SameEndPoints(IndexLinks, ExpectedEndPoints)
             /\ (Served /\ Path(ret.req) = root) =>
                   /\ ret.resp.handler = "index"
                   /\ ret.resp.status = 200
                   /\ ret.resp.body = [kind |-> "json", value |-> IndexLinks]
        ELSE /\ ~Installed("index")
             /\ Served => ret.resp.handler # "index"

C26_Witness ==
    /\ Served
    /\ ret.req = [method |-> "GET", tail |-> ""]
    /\ ret.resp.handler = "index"
    /\ ret.resp.status = 200
    /\ Len(ws) = 2
    /\ lastReg[ws[2].handlers] = (Get :> "h1")
    /\ ret.resp.body.value =
          <<[URL |-> "/_debug/pprof", Methods |-> "GET"],
            [URL |-> "/_heartbeat", Methods |-> "GET,HEAD,OPTIONS"],
            [URL |-> "/_profiler/info.html", Methods |-> "GET"],
            [URL |-> "/_version", Methods |-> "GET"],
            [URL |-> "/foobar", Methods |-> "GET,HEAD,OPTIONS"]>>

=============================================================================
